---- MODULE Spec2Model ----
(***************************************************************************)
(* Model of the tile placement engine of bevy_tileset_map                  *)
(* (src/src/placement.rs): TilePlacer's place / try_place / replace /      *)
(* toggle_matching / toggle / remove over a per (map, layer) grid index,   *)
(* the tile registry, and the RemoveAutoTileEvent channel.                 *)
(*                                                                         *)
(* Option<T> is modelled as a sequence of length <= 1: None is <<>> and    *)
(* Some(x) is <<x>>.                                                       *)
(***************************************************************************)
EXTENDS Integers, Sequences, FiniteSets, TLC

\* ------------------------------------------------------------------ bounds
\* Calls made on the placer in one run.
MaxCalls == 3
\* Ticks of the schedule in one run.
MaxTicks == 3

\* ------------------------------------------------------------- data model
None == <<>>
Some(x) == <<x>>

Maps == {0}
Layers == {0, 1}
TilePos == {<<0, 0>>, <<3, 4>>}
\* One grid index exists per (map, layer); a cell is <<map, layer, pos>>.
\* Layer 0 spans both positions, layer 1 is a smaller layer holding <<0, 0>>
\* only; callers address cells inside their layer.
Cells == {c \in Maps \X Layers \X TilePos : c[2] = 0 \/ c[3] = <<0, 0>>}
\* Every call spawns at most one tile entity; handle 0 is the tile that may
\* be in the world before the first call.
Entities == 0..MaxCalls

\* TileId: a group id and a variant index inside the group.
Wall == [group_id |-> 1, index |-> 0]
WallCorner == [group_id |-> 1, index |-> 1]
Floor == [group_id |-> 2, index |-> 0]
FloorMissing == [group_id |-> 2, index |-> 1]
Ghost == [group_id |-> 3, index |-> 0]
TileIds == {Wall, WallCorner, Floor, FloorMissing, Ghost}

\* TileId::eq_tile_group as used by replace and toggle_matching: group ids
\* match, whatever the variant.
eq_tile_group(a, b) == a.group_id = b.group_id

\* -------------------------------------------------------------- registry
\* Groups 1 and 2 live in a loaded tileset; group 3 belongs to no loaded
\* tileset.  Group 1 is an auto tile group.  Floor has a single variant.
LoadedTileset == [id |-> "tiles"]

get_tileset_id(tile_id) ==
    IF tile_id.group_id \in {1, 2}
    THEN [ok |-> TRUE, value |-> LoadedTileset]
    ELSE [ok |-> FALSE, error |-> [tag |-> "InvalidTileset"]]

get_tile_index(tile_id) ==
    IF ~get_tileset_id(tile_id).ok
    THEN [ok |-> FALSE, error |-> [tag |-> "InvalidTileset"]]
    ELSE IF tile_id \in {Wall, WallCorner, Floor}
    THEN [ok |-> TRUE, value |-> tile_id]
    ELSE [ok |-> FALSE, error |-> [tag |-> "InvalidTile", id |-> tile_id]]

get_tile_data(tile_id) ==
    IF ~get_tile_index(tile_id).ok
    THEN [ok |-> FALSE, error |-> get_tile_index(tile_id).error]
    ELSE [ok |-> TRUE, value |-> [is_auto |-> tile_id.group_id = 1]]

Resolvable(tile_id) == get_tile_index(tile_id).ok

\* -------------------------------------------------------------- schedule
\* The stages and labelled systems TilesetMapPlugin deals with.  TilemapStage
\* and the system labelled UpdateChunkVisibility belong to bevy_ecs_tilemap.
Stages == {"TilemapStage", "TilesetMapStage"}
Systems == {"RemoveAutoTiles", "UpdateAutoTiles", "UpdateChunkVisibility"}

StageOf(s) == IF s = "RemoveAutoTiles" THEN "TilesetMapStage" ELSE "TilemapStage"

\* Variant of Before without the ordering constraint of the plugin.
Before_unordered == {}

\* The .before(..) constraints: <<a, b>> says a finishes before b starts.
Before == {<<"UpdateAutoTiles", "UpdateChunkVisibility">>}

\* The systems the plugin adds, by build feature.
Registered(auto) ==
    IF auto THEN {"RemoveAutoTiles", "UpdateAutoTiles"} ELSE {}

\* ----------------------------------------------------------------- state
VARIABLES
    autoTile,    \* the "auto-tile" feature of the build
    grid,        \* Cells -> Option<[entity, id : Option<TileId>]>
    ents,        \* Entities -> Option<[pos, parent, auto : Option<AutoTileId>]>
    events,      \* RemoveAutoTileEvent channel, in send order
    nextEntity,  \* next handle the spawn layer hands out
    pc,          \* "idle", or "despawn" inside remove after the auto-tile block
    call,        \* the operation in progress while pc = "despawn"
    calls,       \* number of calls started so far
    last,        \* the last completed operation and what it returned
    pre,         \* grid, ents and events when the last operation started
    stages,      \* the app's stages in run order, <<>> before the plugin is built
    systems,     \* the systems registered with the app
    tick,        \* number of completed ticks of the schedule
    stage,       \* index in stages of the stage the current tick is in
    status       \* per system in this tick: "waiting", "running" or "done"

placer == <<autoTile, grid, ents, events, nextEntity, pc, call, calls, last, pre>>
sched == <<stages, systems, tick, stage, status>>
vars == <<placer, sched>>

NoCall == [op |-> "none", id |-> None, cell |-> None, ret |-> [tag |-> "none"]]
NoLast == [op |-> "none", id |-> None, cell |-> None, fault |-> FALSE,
           result |-> [tag |-> "none"]]

cur == [grid |-> grid, ents |-> ents, events |-> events, nextEntity |-> nextEntity]
Snapshot == [grid |-> grid, ents |-> ents, events |-> events]

\* The world the placer is handed: no tile at all, or one tile spawned by
\* someone else whose tile identity does not resolve (Option<TileId> = None).
EmptyWorld ==
    [grid |-> [c \in Cells |-> None],
     ents |-> [e \in Entities |-> None]]

StrayCell == <<0, 1, <<0, 0>>>>

StrayWorld ==
    [grid |-> [c \in Cells |->
                  IF c = StrayCell THEN Some([entity |-> 0, id |-> None]) ELSE None],
     ents |-> [e \in Entities |->
                  IF e = 0
                  THEN Some([pos |-> StrayCell[3],
                             parent |-> [map_id |-> StrayCell[1], layer_id |-> StrayCell[2]],
                             auto |-> None])
                  ELSE None]]

Init ==
    /\ autoTile \in BOOLEAN
    /\ \E w \in {EmptyWorld, StrayWorld} : grid = w.grid /\ ents = w.ents
    /\ events = <<>>
    /\ nextEntity = 1
    /\ pc = "idle"
    /\ call = NoCall
    /\ calls = 0
    /\ last = NoLast
    /\ pre = [grid |-> grid, ents |-> ents, events |-> events]
    /\ stages = <<>>
    /\ systems = {}
    /\ tick = 0
    /\ stage = 1
    /\ status = [s \in Systems |-> "waiting"]

\* -------------------------------------------------------------- outcomes
Added(old, new) == [tag |-> "Added", old_tile |-> old, new_tile |-> new]
Removed(old) == [tag |-> "Removed", old_tile |-> old]
OkUnit == [tag |-> "Ok"]
TileAlreadyExists(new, existing, pos) ==
    [tag |-> "TileAlreadyExists", new |-> new, existing |-> existing, pos |-> pos]
MapError == [tag |-> "MapError"]

\* The previous occupant as an outcome carries it: (handle, optional id).
OldTile(occ) == IF occ = None THEN None ELSE Some(<<occ[1].entity, occ[1].id>>)

\* ------------------------------------------------------ storage and index
\* The occupant of a cell: its handle and its tile identity, if any.
get_existing(g, c) == g[c]

\* map_query.get_tile_entity(pos, map_id, layer_id): the handle stored at
\* the cell; a Result<Entity, _>, so a cell with no tile is an error, and so
\* is a failure the storage layer reports (fault).
get_tile_entity(g, c, fault) ==
    IF g[c] = None \/ fault
    THEN [ok |-> FALSE, error |-> MapError]
    ELSE [ok |-> TRUE, value |-> g[c][1].entity]

\* The storage layer can fail only where it is asked: get_tile_entity is
\* called in the auto-tile build, and an empty cell fails by itself.
Faults(auto, g, c) == IF auto /\ g[c] # None THEN BOOLEAN ELSE {FALSE}

\* auto_query.get(entity): position, parent and auto-tile identity of a tile
\* entity that has all three.
auto_query_get(en, entity) ==
    IF en[entity] # None /\ en[entity][1].auto # None
    THEN Some(en[entity][1])
    ELSE None

\* map_query.remove(pos): despawns the tile at pos.  The call is given the
\* position only, neither the map id nor the layer id, so it clears pos in
\* every tile storage the query ranges over.
map_query_remove(st, pos) ==
    LET hit == {c \in Cells : c[3] = pos /\ st.grid[c] # None}
        gone == {st.grid[c][1].entity : c \in hit}
    IN [st EXCEPT !.grid = [c \in Cells |-> IF c[3] = pos THEN None ELSE st.grid[c]],
                  !.ents = [e \in Entities |-> IF e \in gone THEN None ELSE st.ents[e]]]

\* ------------------------------------------------------------ auto tiles
\* Variant of try_remove_auto_tile that never finds the record to report.
try_remove_auto_tile_silent(st, entity) ==
    [st |-> st, sent |-> FALSE]

\* Variant of try_remove_auto_tile that reports the entity whether or not
\* its record was found.
try_remove_auto_tile_always(st, entity) ==
    LET rec == st.ents[entity][1]
        event == [entity |-> entity, pos |-> rec.pos, parent |-> rec.parent,
                  auto_id |-> IF rec.auto # None THEN rec.auto[1]
                              ELSE [group_id |-> 0, tileset_id |-> LoadedTileset]]
    IN [st |-> [st EXCEPT !.events = Append(st.events, event)], sent |-> TRUE]

try_remove_auto_tile(st, entity) ==
    LET found == auto_query_get(st.ents, entity)
        event == IF found # None
                 THEN Some([entity |-> entity, pos |-> found[1].pos,
                            parent |-> found[1].parent, auto_id |-> found[1].auto[1]])
                 ELSE None
    IN IF event # None
       THEN [st |-> [st EXCEPT !.events = Append(st.events, event[1])], sent |-> TRUE]
       ELSE [st |-> st, sent |-> FALSE]

\* Variant of apply_auto_tile that strips the identity without the cleanup
\* notification.
apply_auto_tile_no_cleanup(st, id, tileset_id, entity) ==
    LET data == get_tile_data(id)
        is_auto == IF data.ok THEN data.value.is_auto ELSE FALSE
    IN [st EXCEPT !.ents[entity] =
           Some([st.ents[entity][1] EXCEPT
                   !.auto = IF is_auto
                            THEN Some([group_id |-> id.group_id, tileset_id |-> tileset_id])
                            ELSE None])]

\* The component commands (insert / remove of AutoTileId) take effect after
\* the queries of the same call have been answered, so try_remove_auto_tile
\* still sees the identity that is being stripped.
apply_auto_tile(st, id, tileset_id, entity) ==
    LET data == get_tile_data(id)
        is_auto == IF data.ok THEN data.value.is_auto ELSE FALSE
    IN IF is_auto
       THEN [st EXCEPT !.ents[entity] =
                Some([st.ents[entity][1] EXCEPT
                        !.auto = Some([group_id |-> id.group_id, tileset_id |-> tileset_id])])]
       ELSE LET sent == try_remove_auto_tile(st, entity).st
            IN [sent EXCEPT !.ents[entity] = Some([st.ents[entity][1] EXCEPT !.auto = None])]

\* --------------------------------------------------------- place_unchecked
\* Resolves the new tile first and fails without any mutation; otherwise
\* spawns a fresh handle at the cell, superseding the previous occupant, and
\* applies the auto-tile identity when the feature is on.
place_unchecked(st, auto, id, c) ==
    LET tileset == get_tileset_id(id)
        index == get_tile_index(id)
    IN IF ~tileset.ok THEN [res |-> tileset.error, st |-> st]
       ELSE IF ~index.ok THEN [res |-> index.error, st |-> st]
       ELSE
         LET old == get_existing(st.grid, c)
             entity == st.nextEntity
             dropped == IF old = None THEN st.ents
                        ELSE [st.ents EXCEPT ![old[1].entity] = None]
             spawned == [st EXCEPT
                 !.grid[c] = Some([entity |-> entity, id |-> Some(id)]),
                 !.ents = [dropped EXCEPT ![entity] =
                              Some([pos |-> c[3],
                                    parent |-> [map_id |-> c[1], layer_id |-> c[2]],
                                    auto |-> None])],
                 !.nextEntity = entity + 1]
             done == IF auto THEN apply_auto_tile(spawned, id, tileset.value, entity)
                     ELSE spawned
         IN [res |-> Added(OldTile(old), <<entity, id>>), st |-> done]

\* ------------------------------------------------------------ operations
\* Variant of Idle that lets a call start while a removal is between its
\* notification and its despawn.
Idle_reentrant == calls < MaxCalls

\* No call is in progress and the run has calls left.
Idle == pc = "idle" /\ calls < MaxCalls

\* A call returns res, leaving the state st; fault tells whether the storage
\* layer failed during it.
Finish(op, id, c, res, st, fault) ==
    /\ grid' = st.grid
    /\ ents' = st.ents
    /\ events' = st.events
    /\ nextEntity' = st.nextEntity
    /\ last' = [op |-> op, id |-> id, cell |-> Some(c), fault |-> fault, result |-> res]
    /\ pre' = Snapshot
    /\ pc' = "idle"
    /\ call' = NoCall
    /\ calls' = calls + 1
    /\ UNCHANGED <<autoTile, sched>>

Return(op, id, c, res, st) == Finish(op, id, c, res, st, FALSE)

Placing(op, id, c) ==
    LET r == place_unchecked(cur, autoTile, id, c)
    IN Return(op, Some(id), c, r.res, r.st)

\* remove up to and including its auto-tile block: with the feature on, the
\* handle is fetched (a failure returns MapError) and the cascade event is
\* sent; the despawn follows in remove_despawn.
remove_begin(op, id, c, ret) ==
    \E fault \in Faults(autoTile, grid, c) :
    LET fetched == get_tile_entity(grid, c, fault)
    IN IF autoTile /\ ~fetched.ok
       THEN Finish(op, id, c, fetched.error, cur, fault)
       ELSE /\ events' = IF autoTile
                         THEN try_remove_auto_tile(cur, fetched.value).st.events
                         ELSE events
            /\ pc' = "despawn"
            /\ call' = [op |-> op, id |-> id, cell |-> Some(c), ret |-> ret]
            /\ pre' = Snapshot
            /\ calls' = calls + 1
            /\ UNCHANGED <<autoTile, grid, ents, nextEntity, last, sched>>

\* Variant of remove_despawn that returns without despawning the tile.
remove_despawn_skipped ==
    /\ pc = "despawn"
    /\ last' = [op |-> call.op, id |-> call.id, cell |-> call.cell, fault |-> FALSE,
                result |-> call.ret]
    /\ pc' = "idle"
    /\ call' = NoCall
    /\ UNCHANGED <<autoTile, grid, ents, events, nextEntity, calls, pre, sched>>

\* The tail of remove: despawn the tile, then return to the caller (remove
\* itself, or the removal branch of toggle / toggle_matching).
remove_despawn ==
    /\ pc = "despawn"
    /\ LET st == map_query_remove(cur, call.cell[1][3])
       IN /\ grid' = st.grid
          /\ ents' = st.ents
    /\ last' = [op |-> call.op, id |-> call.id, cell |-> call.cell, fault |-> FALSE,
                result |-> call.ret]
    /\ pc' = "idle"
    /\ call' = NoCall
    /\ UNCHANGED <<autoTile, events, nextEntity, calls, pre, sched>>

\* Variant of place that refuses an occupied cell, as try_place does.
place_exclusive(id, c) ==
    /\ Idle
    /\ LET existing == get_existing(grid, c)
       IN IF existing # None
          THEN Return("place", Some(id), c,
                      TileAlreadyExists(id, existing[1].id, c[3]), cur)
          ELSE Placing("place", id, c)

place(id, c) ==
    /\ Idle
    /\ Placing("place", id, c)

\* Variant of try_place that refuses only an occupant of the same group.
try_place_group_only(id, c) ==
    /\ Idle
    /\ LET existing == get_existing(grid, c)
       IN IF /\ existing # None
             /\ existing[1].id # None
             /\ eq_tile_group(existing[1].id[1], id)
          THEN Return("try_place", Some(id), c,
                      TileAlreadyExists(id, existing[1].id, c[3]), cur)
          ELSE Placing("try_place", id, c)

try_place(id, c) ==
    /\ Idle
    /\ LET existing == get_existing(grid, c)
       IN IF existing # None
          THEN Return("try_place", Some(id), c,
                      TileAlreadyExists(id, existing[1].id, c[3]), cur)
          ELSE Placing("try_place", id, c)

\* Variant of replace that refuses any occupied cell.
replace_exclusive(id, c) ==
    /\ Idle
    /\ LET existing == get_existing(grid, c)
       IN IF existing # None
          THEN Return("replace", Some(id), c,
                      TileAlreadyExists(id, existing[1].id, c[3]), cur)
          ELSE Placing("replace", id, c)

\* Variant of replace that takes an occupant without tile identity for a
\* match and refuses it.
replace_absent_refused(id, c) ==
    /\ Idle
    /\ LET existing == get_existing(grid, c)
       IN IF /\ existing # None
             /\ (existing[1].id = None \/ eq_tile_group(existing[1].id[1], id))
          THEN Return("replace", Some(id), c,
                      TileAlreadyExists(id, existing[1].id, c[3]), cur)
          ELSE Placing("replace", id, c)

replace(id, c) ==
    /\ Idle
    /\ LET existing == get_existing(grid, c)
       IN IF /\ existing # None
             /\ existing[1].id # None
             /\ eq_tile_group(existing[1].id[1], id)
          THEN Return("replace", Some(id), c,
                      TileAlreadyExists(id, existing[1].id, c[3]), cur)
          ELSE Placing("replace", id, c)

\* Variant of toggle_matching that removes whatever occupies the cell.
toggle_matching_any(id, c) ==
    /\ Idle
    /\ LET existing == get_existing(grid, c)
       IN IF existing # None
          THEN remove_begin("toggle_matching", Some(id), c,
                   Removed(Some(<<existing[1].entity, existing[1].id>>)))
          ELSE Placing("toggle_matching", id, c)

toggle_matching(id, c) ==
    /\ Idle
    /\ LET existing == get_existing(grid, c)
       IN IF existing # None
          THEN IF existing[1].id # None /\ eq_tile_group(existing[1].id[1], id)
               THEN remove_begin("toggle_matching", Some(id), c,
                        Removed(Some(<<existing[1].entity, Some(existing[1].id[1])>>)))
               ELSE Return("toggle_matching", Some(id), c,
                           TileAlreadyExists(id, existing[1].id, c[3]), cur)
          ELSE Placing("toggle_matching", id, c)

\* Variant of toggle that removes only an occupant of the same group and
\* overwrites any other.
toggle_overwrite(id, c) ==
    /\ Idle
    /\ LET existing == get_existing(grid, c)
       IN IF /\ existing # None
             /\ existing[1].id # None
             /\ eq_tile_group(existing[1].id[1], id)
          THEN remove_begin("toggle", Some(id), c,
                   Removed(Some(<<existing[1].entity, existing[1].id>>)))
          ELSE Placing("toggle", id, c)

\* Variant of toggle that drops the error of remove and reports Removed.
toggle_error_dropped(id, c) ==
    /\ Idle
    /\ LET existing == get_existing(grid, c)
       IN IF existing # None
          THEN \E fault \in Faults(autoTile, grid, c) :
                  IF fault
                  THEN Finish("toggle", Some(id), c,
                              Removed(Some(<<existing[1].entity, existing[1].id>>)),
                              cur, fault)
                  ELSE remove_begin("toggle", Some(id), c,
                           Removed(Some(<<existing[1].entity, existing[1].id>>)))
          ELSE Placing("toggle", id, c)

toggle(id, c) ==
    /\ Idle
    /\ LET existing == get_existing(grid, c)
       IN IF existing # None
          THEN remove_begin("toggle", Some(id), c,
                   Removed(Some(<<existing[1].entity, existing[1].id>>)))
          ELSE Placing("toggle", id, c)

remove(c) ==
    /\ Idle
    /\ remove_begin("remove", None, c, OkUnit)

\* update(tile_id, entity): the tile behind a live handle becomes tile_id.
\* The new tile is resolved first (an error changes nothing); the handle
\* then shows the new tile and its auto-tile identity is reconciled.
update(id, entity) ==
    /\ Idle
    /\ ents[entity] # None
    /\ LET rec == ents[entity][1]
           c == <<rec.parent.map_id, rec.parent.layer_id, rec.pos>>
           tileset == get_tileset_id(id)
           index == get_tile_index(id)
       IN IF ~tileset.ok THEN Return("update", Some(id), c, tileset.error, cur)
          ELSE IF ~index.ok THEN Return("update", Some(id), c, index.error, cur)
          ELSE LET shown == [cur EXCEPT
                                !.grid[c] = Some([entity |-> entity, id |-> Some(id)])]
                   done == IF autoTile
                           THEN apply_auto_tile(shown, id, tileset.value, entity)
                           ELSE shown
               IN Return("update", Some(id), c, OkUnit, done)

Next ==
    \/ \E id \in TileIds, e \in Entities : update(id, e)
    \/ \E id \in TileIds, c \in Cells : place(id, c)
    \/ \E id \in TileIds, c \in Cells : try_place(id, c)
    \/ \E id \in TileIds, c \in Cells : replace(id, c)
    \/ \E id \in TileIds, c \in Cells : toggle_matching(id, c)
    \/ \E id \in TileIds, c \in Cells : toggle(id, c)
    \/ \E c \in Cells : remove(c)
    \/ remove_despawn

Spec == Init /\ [][Next]_vars

\* ------------------------------------------------------- running the app
\* TilesetMapPlugin::build: adds TilesetMapStage and, with the auto-tile
\* feature, the two systems.  Where TilesetMapStage ends up relative to
\* TilemapStage depends on the app it is added to.
build(order) ==
    /\ stages = <<>>
    /\ stages' = order
    /\ systems' = Registered(autoTile) \cup {"UpdateChunkVisibility"}
    /\ UNCHANGED <<tick, stage, status, placer>>

InStage == {s \in systems : StageOf(s) = stages[stage]}
Ticking == stages # <<>> /\ tick < MaxTicks

\* The stage's executor starts a system once every system it is ordered
\* after has finished.
start_system(s) ==
    /\ Ticking
    /\ s \in InStage
    /\ status[s] = "waiting"
    /\ \A b \in InStage : <<b, s>> \in Before => status[b] = "done"
    /\ status' = [status EXCEPT ![s] = "running"]
    /\ UNCHANGED <<stages, systems, tick, stage, placer>>

finish_system(s) ==
    /\ Ticking
    /\ status[s] = "running"
    /\ status' = [status EXCEPT ![s] = "done"]
    /\ UNCHANGED <<stages, systems, tick, stage, placer>>

next_stage ==
    /\ Ticking
    /\ \A s \in InStage : status[s] = "done"
    /\ stage < Len(stages)
    /\ stage' = stage + 1
    /\ UNCHANGED <<stages, systems, tick, status, placer>>

end_tick ==
    /\ Ticking
    /\ \A s \in InStage : status[s] = "done"
    /\ stage = Len(stages)
    /\ tick' = tick + 1
    /\ stage' = 1
    /\ status' = [s \in Systems |-> "waiting"]
    /\ UNCHANGED <<stages, systems, placer>>

SchedNext ==
    \/ \E order \in {<<"TilemapStage", "TilesetMapStage">>,
                     <<"TilesetMapStage", "TilemapStage">>} : build(order)
    \/ \E s \in Systems : start_system(s)
    \/ \E s \in Systems : finish_system(s)
    \/ next_stage
    \/ end_tick

SchedSpec == Init /\ [][SchedNext]_vars

\* ================================================================ claims
\* What the last completed operation was about.
Done == pc = "idle"
LastCell == last.cell[1]
LastId == last.id[1]
\* The occupant the target cell held when the last operation started.
PreOcc == pre.grid[LastCell]
PreGroupEqual ==
    /\ PreOcc # None
    /\ PreOcc[1].id # None
    /\ eq_tile_group(PreOcc[1].id[1], LastId)
\* The last operation removed the occupant of its target cell.
RemovalDone ==
    /\ Done
    /\ \/ last.op = "remove" /\ last.result = OkUnit /\ PreOcc # None
       \/ last.op \in {"toggle", "toggle_matching"} /\ last.result.tag = "Removed"
\* The tile entities that are alive and positioned at a cell.
LiveAt(c) ==
    {e \in Entities : /\ ents[e] # None
                      /\ ents[e][1].pos = c[3]
                      /\ ents[e][1].parent = [map_id |-> c[1], layer_id |-> c[2]]}

\* C1: try_place on an occupied cell returns TileAlreadyExists{new = the
\* requested id, existing = the occupant's id, pos = the cell}, whatever the
\* groups of the two tiles, and the cell keeps its occupant.
C1_TryPlaceExclusive ==
    (Done /\ last.op = "try_place" /\ PreOcc # None) =>
        /\ last.result = TileAlreadyExists(LastId, PreOcc[1].id, LastCell[3])
        /\ grid[LastCell] = PreOcc

C1_Witness ==
    /\ Done /\ last.op = "try_place" /\ PreOcc # None
    /\ ~PreGroupEqual
    /\ Resolvable(LastId)
    /\ last.result.tag = "TileAlreadyExists"

\* C2: replace returns TileAlreadyExists exactly when the cell is occupied by
\* a group-equal tile (and then changes nothing); a tile of another group is
\* overwritten, with Added{old = the previous occupant, new = the new tile};
\* on an empty cell the tile is installed with old = None.  The installing
\* branches are those of a tile id the registry resolves.
C2_ReplaceGroupScoped ==
    (Done /\ last.op = "replace") =>
        /\ (last.result.tag = "TileAlreadyExists") <=> PreGroupEqual
        /\ PreGroupEqual =>
              /\ last.result = TileAlreadyExists(LastId, PreOcc[1].id, LastCell[3])
              /\ grid = pre.grid
        /\ (~PreGroupEqual /\ Resolvable(LastId)) =>
              /\ last.result.tag = "Added"
              /\ last.result.old_tile = OldTile(PreOcc)
              /\ last.result.new_tile[2] = LastId
              /\ grid[LastCell] =
                    Some([entity |-> last.result.new_tile[1], id |-> Some(LastId)])
              /\ PreOcc # None => last.result.new_tile[1] # PreOcc[1].entity

C2_Witness ==
    /\ Done /\ last.op = "replace"
    /\ PreOcc # None /\ ~PreGroupEqual
    /\ last.result.tag = "Added"
    /\ last.result.old_tile # None

\* C3: toggle_matching on an occupied cell removes the occupant, returning
\* Removed{old = (handle, id) of the occupant} and leaving the cell empty,
\* when and only when occupant and new tile are group-equal (and the storage
\* layer does not fail, the case of C18); otherwise it returns
\* TileAlreadyExists and neither the index nor the channel changes.
C3_ToggleMatchingSelective ==
    (Done /\ last.op = "toggle_matching" /\ PreOcc # None) =>
        /\ (last.result.tag = "Removed") <=> (PreGroupEqual /\ ~last.fault)
        /\ (PreGroupEqual /\ ~last.fault) =>
              /\ last.result = Removed(OldTile(PreOcc))
              /\ grid[LastCell] = None
        /\ ~PreGroupEqual =>
              /\ last.result = TileAlreadyExists(LastId, PreOcc[1].id, LastCell[3])
              /\ grid = pre.grid
              /\ events = pre.events

C3_Witness ==
    /\ Done /\ last.op = "toggle_matching"
    /\ PreGroupEqual
    /\ PreOcc[1].id # Some(LastId)
    /\ last.result.tag = "Removed"
    /\ grid[LastCell] = None

\* C4: toggle on an empty cell installs the (resolvable) tile, Added with
\* old = None; toggle on any occupied cell removes the occupant, Removed with
\* old = the occupant, whatever its group (unless the storage layer fails,
\* the case of C18); so the second of two equal toggles on an empty cell
\* finds the tile of the first and leaves the cell empty.
C4_ToggleSymmetry ==
    (Done /\ last.op = "toggle") =>
        /\ (PreOcc = None /\ Resolvable(LastId)) =>
              /\ last.result.tag = "Added"
              /\ last.result.old_tile = None
              /\ last.result.new_tile[2] = LastId
              /\ grid[LastCell] =
                    Some([entity |-> last.result.new_tile[1], id |-> Some(LastId)])
        /\ (PreOcc # None /\ ~last.fault) =>
              /\ last.result = Removed(OldTile(PreOcc))
              /\ grid[LastCell] = None

C4_Witness ==
    /\ Done /\ last.op = "toggle"
    /\ PreOcc # None
    /\ PreOcc[1].id = Some(LastId)
    /\ last.result.tag = "Removed"
    /\ grid[LastCell] = None

\* C5: place never returns TileAlreadyExists; place(B) on a cell that holds
\* A, A # B, B resolvable, returns Added with old carrying A and new carrying
\* B, and a lookup of the cell afterwards yields B.
C5_PlaceOverwrites ==
    (Done /\ last.op = "place") =>
        /\ last.result.tag # "TileAlreadyExists"
        /\ (PreOcc # None /\ PreOcc[1].id # Some(LastId) /\ Resolvable(LastId)) =>
              /\ last.result.tag = "Added"
              /\ last.result.old_tile = Some(<<PreOcc[1].entity, PreOcc[1].id>>)
              /\ last.result.new_tile[2] = LastId
              /\ get_existing(grid, LastCell) # None
              /\ get_existing(grid, LastCell)[1].id = Some(LastId)
              /\ get_existing(grid, LastCell)[1].entity = last.result.new_tile[1]

C5_Witness ==
    /\ Done /\ last.op = "place"
    /\ PreOcc # None /\ PreOcc[1].id # None /\ PreOcc[1].id # Some(LastId)
    /\ last.result.tag = "Added"
    /\ grid[LastCell][1].id = Some(LastId)

\* C6: remove on a cell with no occupant returns Ok and changes neither the
\* grid index nor the cascade channel, with and without the auto-tile
\* feature.
C6_RemoveEmptyIsNoop ==
    (Done /\ last.op = "remove" /\ PreOcc = None) =>
        /\ last.result = OkUnit
        /\ grid = pre.grid
        /\ events = pre.events

C8_NotifiedCellCleared ==
    (pc = "despawn" \/ RemovalDone) =>
        \A i \in (Len(pre.events) + 1)..Len(events) :
            LET ev == events[i]
                c == <<ev.parent.map_id, ev.parent.layer_id, ev.pos>>
            IN ~(grid[c] # None /\ grid[c][1].entity = ev.entity)

\* C9: an operation given a tile id the registry cannot resolve fails and
\* leaves the grid index and the cascade channel as they were, also on an
\* occupied cell.
C9_UnresolvableFailsClean ==
    (/\ Done
     /\ last.op \in {"place", "try_place", "replace", "toggle", "toggle_matching"}
     /\ ~Resolvable(LastId)) =>
        /\ last.result.tag \in
              {"TileAlreadyExists", "InvalidTileset", "InvalidTile", "MapError"}
        /\ grid = pre.grid
        /\ events = pre.events

\* C10: every cell holds at most one occupant: the live tile entities at a
\* cell are exactly the occupant the index records for it; an insert
\* supersedes the previous occupant and a removal leaves the cell empty.
C10_OneOccupantPerCell ==
    /\ \A c \in Cells :
          /\ Cardinality(LiveAt(c)) <= 1
          /\ LiveAt(c) = IF grid[c] = None THEN {} ELSE {grid[c][1].entity}
    /\ RemovalDone => grid[LastCell] = None
    /\ (Done /\ last.result.tag = "Added") =>
          /\ grid[LastCell] # None
          /\ grid[LastCell][1].entity = last.result.new_tile[1]
          /\ PreOcc # None => ents[PreOcc[1].entity] = None

C10_Witness ==
    /\ Done /\ last.result.tag = "Added"
    /\ last.result.old_tile # None
    /\ ents[PreOcc[1].entity] = None
    /\ LiveAt(LastCell) = {last.result.new_tile[1]}

\* C13: with the auto-tile feature on, removing an occupant whose
\* neighbourhood record (position, parent, auto-tile identity) is not found
\* sends no notification and is no error: remove returns Ok (toggle returns
\* Removed) and the cell is cleared.
C13_MissingRecordTolerated ==
    (/\ Done /\ autoTile
     /\ last.op \in {"remove", "toggle"}
     /\ PreOcc # None /\ ~last.fault
     /\ auto_query_get(pre.ents, PreOcc[1].entity) = None) =>
        /\ last.result = IF last.op = "remove" THEN OkUnit ELSE Removed(OldTile(PreOcc))
        /\ events = pre.events
        /\ grid[LastCell] = None

C13_Witness ==
    /\ Done /\ autoTile
    /\ last.op = "remove" /\ last.result = OkUnit
    /\ PreOcc # None
    /\ auto_query_get(pre.ents, PreOcc[1].entity) = None
    /\ grid[LastCell] = None

\* C14: applying the auto-tile identity to the handle of a placed tile: for
\* a tile whose metadata says is_auto the handle gets the identity (group id
\* of the tile, tileset id) and nothing is sent; otherwise (not is_auto, or
\* metadata that does not resolve) the handle ends without identity and one
\* notification is sent exactly when the handle had a neighbourhood record.
AutoIdentity(id) ==
    [group_id |-> id.group_id, tileset_id |-> get_tileset_id(id).value]
StripNotice(en, entity) ==
    [entity |-> entity, pos |-> en[entity][1].pos, parent |-> en[entity][1].parent,
     auto_id |-> en[entity][1].auto[1]]
IsAutoTile(id) == get_tile_data(id).ok /\ get_tile_data(id).value.is_auto
\* The handle the last call applied the identity to.
AppliedTo ==
    IF last.result.tag = "Added" THEN last.result.new_tile[1] ELSE PreOcc[1].entity

C14_ApplyAutoTile ==
    /\ (/\ Done /\ autoTile
        /\ \/ last.result.tag = "Added"
           \/ last.op = "update" /\ last.result = OkUnit) =>
          LET e == AppliedTo
              had == pre.ents[e] # None /\ auto_query_get(pre.ents, e) # None
          IN IF IsAutoTile(LastId)
             THEN /\ ents[e][1].auto = Some(AutoIdentity(LastId))
                  /\ events = pre.events
             ELSE /\ ents[e][1].auto = None
                  /\ events = IF had THEN Append(pre.events, StripNotice(pre.ents, e))
                              ELSE pre.events
    /\ \A id \in TileIds, e \in Entities :
          (ents[e] # None /\ ~get_tile_data(id).ok) =>
             LET after == apply_auto_tile(cur, id, LoadedTileset, e)
             IN /\ after.ents[e][1].auto = None
                /\ after.events = IF auto_query_get(ents, e) # None
                                  THEN Append(events, StripNotice(ents, e))
                                  ELSE events

C14_Witness ==
    /\ Done /\ autoTile
    /\ last.op = "update" /\ last.result = OkUnit
    /\ ~IsAutoTile(LastId)
    /\ auto_query_get(pre.ents, PreOcc[1].entity) # None
    /\ ents[PreOcc[1].entity][1].auto = None
    /\ Len(events) = Len(pre.events) + 1

\* C15: try_place, replace and toggle_matching given an unresolvable tile id
\* on an occupied cell return InvalidTileset or InvalidTile, never
\* TileAlreadyExists: the tile id is resolved before the cell is looked at.
C15_ResolveBeforeLookup ==
    (/\ Done
     /\ last.op \in {"try_place", "replace", "toggle_matching"}
     /\ ~Resolvable(LastId)
     /\ PreOcc # None) =>
        last.result.tag \in {"InvalidTileset", "InvalidTile"}

\* C16: an operation addressed to (map, layer, pos) leaves the occupant of
\* every other cell as it was, the same pos of another map or layer included.
C16_OtherCellsUntouched ==
    (Done /\ last.op # "none") =>
        \A c \in Cells \ {LastCell} : grid[c] = pre.grid[c]

\* C17: an occupant without tile identity is group-equal to no new tile and
\* every operation on it completes: replace overwrites it (Added, for a tile
\* id that resolves), toggle_matching and try_place refuse with
\* TileAlreadyExists{existing = None} and change nothing, toggle removes it
\* and returns Removed with the absent identity.
C17_AbsentIdentityTolerated ==
    (Done /\ last.op # "none" /\ PreOcc # None /\ PreOcc[1].id = None) =>
        /\ last.result.tag # "none"
        /\ (last.op = "replace" /\ Resolvable(LastId)) =>
              /\ last.result.tag = "Added"
              /\ last.result.old_tile = Some(<<PreOcc[1].entity, None>>)
              /\ last.result.new_tile[2] = LastId
              /\ grid[LastCell] =
                    Some([entity |-> last.result.new_tile[1], id |-> Some(LastId)])
        /\ last.op \in {"toggle_matching", "try_place"} =>
              /\ last.result = TileAlreadyExists(LastId, None, LastCell[3])
              /\ grid = pre.grid
              /\ events = pre.events
        /\ (last.op = "toggle" /\ ~last.fault) =>
              /\ last.result = Removed(Some(<<PreOcc[1].entity, None>>))
              /\ grid[LastCell] = None

C17_Witness ==
    /\ Done /\ last.op = "replace"
    /\ PreOcc # None /\ PreOcc[1].id = None
    /\ last.result.tag = "Added"
    /\ last.result.old_tile = Some(<<PreOcc[1].entity, None>>)

\* C18: when the storage layer fails to return the tile entity during remove,
\* the caller gets MapError (toggle and toggle_matching pass it on instead of
\* Removed), the cell is not cleared and no notification is sent.
C18_MapErrorPropagates ==
    /\ (Done /\ last.fault) => last.result = MapError
    /\ (Done /\ last.result = MapError) =>
          /\ last.op \in {"remove", "toggle", "toggle_matching"}
          /\ grid = pre.grid
          /\ ents = pre.ents
          /\ events = pre.events

C18_Witness ==
    /\ Done /\ last.fault
    /\ last.op = "toggle"
    /\ last.result = MapError
    /\ PreOcc # None /\ grid[LastCell] = PreOcc

C12_UpdateBeforeVisibility ==
    /\ "UpdateAutoTiles" \in systems <=> (autoTile /\ stages # <<>>)
    /\ ("UpdateAutoTiles" \in systems /\ status["UpdateChunkVisibility"] # "waiting") =>
          status["UpdateAutoTiles"] = "done"

C12_Witness ==
    /\ autoTile /\ tick >= 1
    /\ status["UpdateChunkVisibility"] = "running"
    /\ status["UpdateAutoTiles"] = "done"
====
